---- MODULE Spec2Model ----
(***************************************************************************)
(* qshell qdownload: the download job controller (QiniuDownload), the      *)
(* worker pool (doDownload) and the transfer protocol (downloadFile) of    *)
(* src/qshell/qdownload.go, as a state machine.                            *)
(*                                                                         *)
(* A text is a sequence of tokens: the key "a.png" is <<"a", ".png">>, the *)
(* directory "/down" is <<"/", "down">>, so that filepath.Join, the ".tmp" *)
(* suffix, filepath.Abs and strings.HasSuffix are computed on the text.    *)
(* A decimal field of the listing is <<"d", n>>; anything else does not    *)
(* parse.  A local file is [size, whole]: whole is history, TRUE when the  *)
(* transfer that last wrote the file has read its response body to the     *)
(* last byte.                                                              *)
(*                                                                         *)
(* Spec: the runs of the program over a bucket of two objects that changes *)
(* between runs, with failures and kills.  FairSpec: the runs of a process *)
(* that is not killed, under fair scheduling.  PathSpec: one run over the  *)
(* listings of any two distinct keys, for the paths the tasks work on.     *)
(***************************************************************************)
EXTENDS Integers, Sequences, FiniteSets, TLC

\* ---- bounds of the model
MaxSize == 2
MaxMtime == 2
MaxThreads == 2
\* the longest key, in tokens, of the listings the paths are studied on
MaxKeyLen == 2

\* ---- program constants
MIN_DOWNLOAD_THREAD_COUNT == 1
\* the status of os.Exit for a failed run (declared outside this file; not zero)
STATUS_ERROR == 1

VARIABLES
    destDir,      \* downConfig.DestDir
    suffixes,     \* downConfig.Suffixes, split at ","
    remote,       \* the bucket: key -> [size, mtime]
    store,        \* resumeLevelDb: path -> "<mtime>|<size>"
    fs,           \* the local file system: path -> [size, whole]
    poolCap,      \* cap(downloadTasks); 0 before initDownOnce has run
    queue,        \* downloadTasks
    workers,      \* the doDownload goroutines
    pc,           \* where QiniuDownload is
    listing,      \* the lines of jobListFileName
    idx,          \* the line listScanner.Scan() returns next
    pending,      \* the task the controller is sending
    wg,           \* downWaitGroup
    cnt,          \* the counters of QiniuDownload
    exitStatus,   \* the status the last run ended with
    nextId,       \* history: tasks the run built so far
    taken,        \* history: task id -> times a worker received it
    finished,     \* history: task ids whose closure returned
    decision,     \* history: key -> what the run decided for it, and what it saw
    acceptedLmd,  \* history: key -> mtime under which its final file was last accepted
    resumeDue,    \* history: keys the previous run left interrupted mid-transfer
    prevDone,     \* history: the previous run completed and the bucket is as it listed it
    clean         \* history: the run started on the previous listing, every file in place

vars == <<destDir, suffixes, remote, store, fs, poolCap, queue, workers, pc,
          listing, idx, pending, wg, cnt, exitStatus, nextId, taken,
          finished, decision, acceptedLmd, resumeDue, prevDone, clean>>

\* ---- inputs
Keys == {<<"a", ".png">>, <<"b", ".log">>}
KeyOrder == <<<<"a", ".png">>, <<"b", ".log">>>>
\* the objects whose content is rewritten in the bucket between runs
Changing == {<<"a", ".png">>}
DestDirs == {<<"/", "down">>, <<"down">>}
SuffixConfigs == {<<<<>>>>, <<<<".png">>>>}
Cwd == <<"/", "work">>
Workers == 1..(MaxThreads + 1)

\* ---- texts
Digits(n) == <<"d", n>>

ParseInt(s) ==
    IF Len(s) = 2 /\ s[1] = "d" THEN [err |-> FALSE, v |-> s[2]]
    ELSE [err |-> TRUE, v |-> 0]

HasSuffix(s, suffix) ==
    /\ Len(suffix) <= Len(s)
    /\ SubSeq(s, Len(s) - Len(suffix) + 1, Len(s)) = suffix

Join(dir, name) == dir \o name

Abs(path) == IF Head(path) = "/" THEN path ELSE Cwd \o path

TmpName(path) == path \o <<".tmp">>

FormatEntry(mtime, size) == <<Digits(mtime), "|", Digits(size)>>

EntryLmd(val) == ParseInt(val[1]).v

\* ---- maps with a growing domain (leveldb, the file system)
MapPut(f, k, v) == [x \in (DOMAIN f) \cup {k} |-> IF x = k THEN v ELSE f[x]]

MapDel(f, k) == [x \in (DOMAIN f) \ {k} |-> f[x]]

Stat(files, path) ==
    IF path \in DOMAIN files THEN [err |-> FALSE, size |-> files[path].size]
    ELSE [err |-> TRUE, size |-> 0]

DbGet(db, key) ==
    IF key \in DOMAIN db THEN [err |-> FALSE, val |-> db[key]]
    ELSE [err |-> TRUE, val |-> FormatEntry(0, 0)]

Rename(files, from, to) == MapPut(MapDel(files, from), to, files[from])

\* ---- the bucket listing (ListBucket writes one line per object)
ListLine(key, obj) == <<key, Digits(obj.size), <<"etag">>, Digits(obj.mtime)>>

\* lines no object stands behind: too few fields, a size or a time that is no number
JunkLines ==
    << <<<<"j", ".png">>>>,
       <<<<"j", ".png">>, <<"x">>, <<"etag">>, Digits(1)>>,
       <<<<"j", ".png">>, Digits(1), <<"etag">>, <<"x">>>> >>

ListBucket(bucket) == JunkLines \o [i \in 1..Len(KeyOrder) |-> ListLine(KeyOrder[i], bucket[KeyOrder[i]])]

GetFileLineCount(lines) == Len(lines)

\* downSuffixes -> filterSuffixes: the empty suffix is dropped
FilterSuffixes(downSuffixes) == SelectSeq(downSuffixes, LAMBDA suffix : suffix # <<>>)

\* GoAhead with every key let through
GoAheadAll(fileKey, filterSuffixes) == TRUE

GoAhead(fileKey, filterSuffixes) ==
    \/ Len(filterSuffixes) = 0
    \/ \E i \in 1..Len(filterSuffixes) : HasSuffix(fileKey, filterSuffixes[i])

\* ---- the keys of the resume store
\* resumeLevelDb.Get([]byte(localFilePath), nil)
ResumeGetKey(localFilePath) == localFilePath

\* rKey := localAbsFilePath
ResumePutKey(localFilePath) == Abs(localFilePath)

\* Classify with the test of the final file against its entry turned round
ClassifyInverted(statFinal, statTmp, got, fileMtime, fileSize) ==
    IF ~statFinal.err THEN
        IF ~got.err /\ EntryLmd(got.val) = fileMtime /\ statFinal.size = fileSize
        THEN [kind |-> "download", fromBytes |-> 0, downNewLog |-> TRUE]
        ELSE [kind |-> "exists", fromBytes |-> 0, downNewLog |-> FALSE]
    ELSE
        IF ~statTmp.err /\ ~got.err /\ EntryLmd(got.val) = fileMtime THEN
            IF statTmp.size < fileSize
            THEN [kind |-> "download", fromBytes |-> statTmp.size, downNewLog |-> FALSE]
            ELSE [kind |-> "promote", fromBytes |-> 0, downNewLog |-> FALSE]
        ELSE [kind |-> "download", fromBytes |-> 0, downNewLog |-> TRUE]

\* ---- the classification of one object: what QiniuDownload does with it.
\* kind "exists": counted as existing; "promote": the temp file is renamed;
\* "download": a task is sent with fromBytes, downNewLog.
Classify(statFinal, statTmp, got, fileMtime, fileSize) ==
    IF ~statFinal.err THEN
        IF ~got.err THEN
            IF EntryLmd(got.val) = fileMtime /\ statFinal.size = fileSize
            THEN [kind |-> "exists", fromBytes |-> 0, downNewLog |-> FALSE]
            ELSE [kind |-> "download", fromBytes |-> 0, downNewLog |-> TRUE]
        ELSE
            IF statFinal.size # fileSize
            THEN [kind |-> "download", fromBytes |-> 0, downNewLog |-> TRUE]
            ELSE [kind |-> "exists", fromBytes |-> 0, downNewLog |-> FALSE]
    ELSE
        IF ~statTmp.err THEN
            IF ~got.err THEN
                IF EntryLmd(got.val) = fileMtime THEN
                    IF statTmp.size < fileSize
                    THEN [kind |-> "download", fromBytes |-> statTmp.size, downNewLog |-> FALSE]
                    ELSE [kind |-> "promote", fromBytes |-> 0, downNewLog |-> FALSE]
                ELSE [kind |-> "download", fromBytes |-> 0, downNewLog |-> TRUE]
            ELSE [kind |-> "download", fromBytes |-> 0, downNewLog |-> TRUE]
        ELSE [kind |-> "download", fromBytes |-> 0, downNewLog |-> TRUE]

\* ---- values
EmptyMap == [x \in {} |-> 0]

NoFile == [size |-> -1, whole |-> FALSE]

FileAt(files, path) == IF path \in DOMAIN files THEN files[path] ELSE NoFile

NoTask == [id |-> 0, key |-> <<>>, fileSize |-> 0, fromBytes |-> 0, downNewLog |-> FALSE]

OffWorker == [pc |-> "off", task |-> NoTask, left |-> 0, err |-> FALSE]

IdleWorker == [pc |-> "idle", task |-> NoTask, left |-> 0, err |-> FALSE]

NoDecision ==
    [kind |-> "none", fromBytes |-> 0, downNewLog |-> FALSE, mtime |-> 0, size |-> 0,
     finalBefore |-> NoFile, tmpBefore |-> NoFile, recBefore |-> 0, acceptedBefore |-> 0,
     err |-> FALSE]

ZeroCounters ==
    [total |-> 0, current |-> 0, exists |-> 0, update |-> 0, success |-> 0,
     failure |-> 0, skip |-> 0]

\* the paths of an object under the configured directory
LocalFilePath(key) == Join(destDir, key)

LocalFilePathTmp(key) == TmpName(LocalFilePath(key))

\* every listed object the suffix filter lets through has its final file, of the listed size
AllInPlace(files, bucket) ==
    \A k \in Keys :
        GoAhead(k, FilterSuffixes(suffixes)) =>
            /\ LocalFilePath(k) \in DOMAIN files
            /\ files[LocalFilePath(k)].size = bucket[k].size

\* a decision without what the classification saw: kept once the object is done with
Settled(d) ==
    [NoDecision EXCEPT !.kind = d.kind, !.fromBytes = d.fromBytes,
                       !.downNewLog = d.downNewLog, !.mtime = d.mtime, !.size = d.size,
                       !.err = d.err]

\* the decisions with the one for key noted, the earlier ones that sent no task settled
Noted(key, d) ==
    [k \in Keys |->
        IF k = key THEN d
        ELSE IF decision[k].kind = "download" THEN decision[k]
        ELSE Settled(decision[k])]

\* what the classification of key saw, kept for the properties (err: the object
\* met an error, noted where the rename or the task ends)
Seen(c, key, fileMtime, fileSize) ==
    [kind |-> c.kind, fromBytes |-> c.fromBytes, downNewLog |-> c.downNewLog,
     mtime |-> fileMtime, size |-> fileSize,
     finalBefore |-> FileAt(fs, LocalFilePath(key)),
     tmpBefore |-> FileAt(fs, LocalFilePathTmp(key)),
     recBefore |-> IF Abs(LocalFilePath(key)) \in DOMAIN store
                   THEN EntryLmd(store[Abs(LocalFilePath(key))]) ELSE 0,
     acceptedBefore |-> acceptedLmd[key],
     err |-> FALSE]

Init ==
    /\ destDir \in DestDirs
    /\ suffixes \in SuffixConfigs
    /\ remote = [k \in Keys |-> [size |-> IF k \in Changing THEN MaxSize ELSE 1, mtime |-> 1]]
    /\ store = EmptyMap
    /\ fs = EmptyMap
    /\ poolCap = 0
    /\ queue = <<>>
    /\ workers = [w \in Workers |-> OffWorker]
    /\ pc = "idle"
    /\ listing = <<>>
    /\ idx = 1
    /\ pending = NoTask
    /\ wg = 0
    /\ cnt = ZeroCounters
    /\ exitStatus = 0
    /\ nextId = 0
    /\ taken = <<>>
    /\ finished = {}
    /\ decision = [k \in Keys |-> NoDecision]
    /\ acceptedLmd = [k \in Keys |-> 0]
    /\ resumeDue = {}
    /\ prevDone = FALSE
    /\ clean = FALSE

\* ---- the environment: the bucket changes between runs (the listing is a snapshot)
Mutate(k) ==
    /\ pc = "idle"
    /\ remote[k].mtime < MaxMtime
    /\ \E s \in 1..MaxSize :
        remote' = [remote EXCEPT ![k] = [size |-> s, mtime |-> remote[k].mtime + 1]]
    /\ resumeDue' = resumeDue \ {k}
    /\ prevDone' = FALSE
    /\ UNCHANGED <<destDir, suffixes, store, fs, poolCap, queue, workers, pc, listing,
                   idx, pending, wg, cnt, exitStatus, nextId, taken, finished,
                   decision, acceptedLmd, clean>>

\* ---- QiniuDownload
\* SpawnCount with the loop running once more (i <= threadCount)
SpawnOneMore(threadCount) == threadCount + 1

\* for i := 0; i < threadCount; i++ { go doDownload(downloadTasks) }
SpawnCount(threadCount) == threadCount

\* up to the scan loop: the listing, initDownOnce, the counters
StartRun(threadCount) ==
    /\ pc = "idle"
    /\ listing' = ListBucket(remote)
    /\ IF poolCap = 0
       THEN /\ poolCap' = threadCount
            /\ queue' = <<>>
            /\ workers' = [w \in Workers |->
                              IF w <= SpawnCount(threadCount) THEN IdleWorker ELSE OffWorker]
       ELSE UNCHANGED <<poolCap, queue, workers>>
    /\ cnt' = [ZeroCounters EXCEPT !.total = GetFileLineCount(listing')]
    /\ idx' = 1
    /\ pc' = "scan"
    /\ wg' = 0
    /\ nextId' = 0
    /\ taken' = <<>>
    /\ finished' = {}
    /\ decision' = [k \in Keys |-> NoDecision]
    /\ clean' = (prevDone /\ AllInPlace(fs, remote))
    /\ prevDone' = FALSE
    /\ exitStatus' = 0
    /\ UNCHANGED <<destDir, suffixes, remote, store, fs, pending, acceptedLmd, resumeDue>>

Scanning == pc = "scan" /\ idx <= Len(listing)

Items == listing[idx]

FileKey == Items[1]

WellFormed ==
    /\ Scanning
    /\ Len(Items) >= 4
    /\ GoAhead(FileKey, FilterSuffixes(suffixes))
    /\ ~ParseInt(Items[2]).err
    /\ ~ParseInt(Items[4]).err

FileSize == ParseInt(Items[2]).v

FileMtime == ParseInt(Items[4]).v

Decided ==
    Classify(Stat(fs, LocalFilePath(FileKey)), Stat(fs, LocalFilePathTmp(FileKey)),
             DbGet(store, ResumeGetKey(LocalFilePath(FileKey))), FileMtime, FileSize)

Advance ==
    /\ idx' = idx + 1
    /\ cnt' = [cnt EXCEPT !.current = @ + 1]

\* len(items) < 4: the line is passed over
ScanShort ==
    /\ Scanning
    /\ Len(Items) < 4
    /\ Advance
    /\ UNCHANGED <<destDir, suffixes, remote, store, fs, poolCap, queue, workers, pc,
                   listing, pending, wg, exitStatus, nextId, taken, finished,
                   decision, acceptedLmd, resumeDue, prevDone, clean>>

\* no suffix of the filter matches
ScanFiltered ==
    /\ Scanning
    /\ Len(Items) >= 4
    /\ ~GoAhead(FileKey, FilterSuffixes(suffixes))
    /\ idx' = idx + 1
    /\ cnt' = [cnt EXCEPT !.current = @ + 1, !.skip = @ + 1]
    /\ decision' = Noted(FileKey, [NoDecision EXCEPT !.kind = "filtered"])
    /\ UNCHANGED <<destDir, suffixes, remote, store, fs, poolCap, queue, workers, pc,
                   listing, pending, wg, exitStatus, nextId, taken, finished,
                   acceptedLmd, resumeDue, prevDone, clean>>

\* strconv.ParseInt fails on the size or on the time
ScanInvalid ==
    /\ Scanning
    /\ Len(Items) >= 4
    /\ GoAhead(FileKey, FilterSuffixes(suffixes))
    /\ ParseInt(Items[2]).err \/ ParseInt(Items[4]).err
    /\ Advance
    /\ UNCHANGED <<destDir, suffixes, remote, store, fs, poolCap, queue, workers, pc,
                   listing, pending, wg, exitStatus, nextId, taken, finished,
                   decision, acceptedLmd, resumeDue, prevDone, clean>>

\* the local file is taken as unchanged
ScanExists ==
    /\ WellFormed
    /\ Decided.kind = "exists"
    /\ idx' = idx + 1
    /\ cnt' = [cnt EXCEPT !.current = @ + 1, !.exists = @ + 1]
    /\ decision' = Noted(FileKey, Seen(Decided, FileKey, FileMtime, FileSize))
    /\ acceptedLmd' = [acceptedLmd EXCEPT ![FileKey] = FileMtime]
    /\ UNCHANGED <<destDir, suffixes, remote, store, fs, poolCap, queue, workers, pc,
                   listing, pending, wg, exitStatus, nextId, taken, finished,
                   resumeDue, prevDone, clean>>

\* the temp file has the size of the object or more: os.Rename, which may fail
ScanPromote ==
    /\ WellFormed
    /\ Decided.kind = "promote"
    /\ Advance
    /\ \E renameErr \in BOOLEAN :
        /\ decision' = Noted(FileKey, [Seen(Decided, FileKey, FileMtime, FileSize)
                                          EXCEPT !.err = renameErr])
        /\ IF renameErr
           THEN UNCHANGED <<fs, acceptedLmd>>
           ELSE /\ fs' = Rename(fs, LocalFilePathTmp(FileKey), LocalFilePath(FileKey))
                /\ acceptedLmd' = [acceptedLmd EXCEPT ![FileKey] = FileMtime]
    /\ UNCHANGED <<destDir, suffixes, remote, store, poolCap, queue, workers, pc,
                   listing, pending, wg, exitStatus, nextId, taken, finished,
                   resumeDue, prevDone, clean>>

\* the closure sent on downloadTasks
NewTask(id, c, fileKey, fileSize) ==
    [id |-> id, key |-> fileKey, fileSize |-> fileSize, fromBytes |-> c.fromBytes,
     downNewLog |-> c.downNewLog]

\* resumeLevelDb.Put, downWaitGroup.Add(1), then the send begins
ScanDispatch ==
    /\ WellFormed
    /\ Decided.kind = "download"
    /\ Advance
    /\ decision' = Noted(FileKey, Seen(Decided, FileKey, FileMtime, FileSize))
    /\ store' = MapPut(store, ResumePutKey(LocalFilePath(FileKey)),
                       FormatEntry(FileMtime, FileSize))
    /\ wg' = wg + 1
    /\ nextId' = nextId + 1
    /\ taken' = Append(taken, 0)
    /\ pending' = NewTask(nextId + 1, Decided, FileKey, FileSize)
    /\ pc' = "send"
    /\ UNCHANGED <<destDir, suffixes, remote, fs, poolCap, queue, workers, listing,
                   exitStatus, finished, acceptedLmd, resumeDue, prevDone,
                   clean>>

\* CanSend for a channel without a bound
CanSendAlways == TRUE

\* downloadTasks <- task: blocks while the channel is full
CanSend == Len(queue) < poolCap

Send ==
    /\ pc = "send"
    /\ CanSend
    /\ queue' = Append(queue, pending)
    /\ pending' = NoTask
    /\ pc' = "scan"
    /\ UNCHANGED <<destDir, suffixes, remote, store, fs, poolCap, workers, listing, idx,
                   wg, cnt, exitStatus, nextId, taken, finished, decision,
                   acceptedLmd, resumeDue, prevDone, clean>>

\* listScanner.Scan() returns false
ScanEnd ==
    /\ pc = "scan"
    /\ idx > Len(listing)
    /\ pc' = "wait"
    /\ UNCHANGED <<destDir, suffixes, remote, store, fs, poolCap, queue, workers,
                   listing, idx, pending, wg, cnt, exitStatus, nextId, taken,
                   finished, decision, acceptedLmd, resumeDue, prevDone, clean>>

\* WaitDone without the wait
WaitSkipped == TRUE

\* downWaitGroup.Wait()
WaitDone == wg = 0

Wait ==
    /\ pc = "wait"
    /\ WaitDone
    /\ pc' = "report"
    /\ UNCHANGED <<destDir, suffixes, remote, store, fs, poolCap, queue, workers,
                   listing, idx, pending, wg, cnt, exitStatus, nextId, taken,
                   finished, decision, acceptedLmd, resumeDue, prevDone, clean>>

ExitCode(counters) == IF counters.failure > 0 THEN STATUS_ERROR ELSE 0

\* the process is gone: its channel and its goroutines with it
ProcessGone ==
    /\ poolCap' = 0
    /\ queue' = <<>>
    /\ workers' = [w \in Workers |-> OffWorker]

RunOver ==
    /\ pc' = "idle"
    /\ listing' = <<>>
    /\ idx' = 1
    /\ pending' = NoTask
    /\ wg' = 0
    /\ cnt' = ZeroCounters
    /\ nextId' = 0
    /\ taken' = <<>>
    /\ finished' = {}
    /\ decision' = [k \in Keys |-> NoDecision]
    /\ clean' = FALSE

\* the result is logged; os.Exit(STATUS_ERROR) if an object failed, else return
Report ==
    /\ pc = "report"
    /\ exitStatus' = ExitCode(cnt)
    /\ IF ExitCode(cnt) = STATUS_ERROR THEN ProcessGone
       ELSE UNCHANGED <<poolCap, queue, workers>>
    /\ RunOver
    /\ resumeDue' = {}
    /\ prevDone' = TRUE
    /\ UNCHANGED <<destDir, suffixes, remote, store, fs, acceptedLmd>>

\* ---- doDownload: task := <-tasks
\* (the goroutines are alike: of those waiting, the first one receives)
Receiver(w) ==
    /\ workers[w].pc = "idle"
    /\ \A v \in Workers : v < w => workers[v].pc # "idle"

\* Take with the task left in the channel
TakePeek(w) ==
    /\ Receiver(w)
    /\ queue # <<>>
    /\ workers' = [workers EXCEPT ![w] = [pc |-> "start", task |-> Head(queue),
                                          left |-> 0, err |-> FALSE]]
    /\ taken' = [taken EXCEPT ![Head(queue).id] = @ + 1]
    /\ UNCHANGED <<destDir, suffixes, remote, store, fs, poolCap, queue, pc, listing, idx,
                   pending, wg, cnt, exitStatus, nextId, finished, decision,
                   acceptedLmd, resumeDue, prevDone, clean>>

Take(w) ==
    /\ Receiver(w)
    /\ queue # <<>>
    /\ workers' = [workers EXCEPT ![w] = [pc |-> "start", task |-> Head(queue),
                                          left |-> 0, err |-> FALSE]]
    /\ queue' = Tail(queue)
    /\ taken' = [taken EXCEPT ![Head(queue).id] = @ + 1]
    /\ UNCHANGED <<destDir, suffixes, remote, store, fs, poolCap, pc, listing, idx,
                   pending, wg, cnt, exitStatus, nextId, finished, decision,
                   acceptedLmd, resumeDue, prevDone, clean>>

\* ---- downloadFile
\* what can happen up to the response: MkdirAll fails, http.NewRequest fails,
\* client.Do fails, the status is not 2xx, or the status is 2xx
Outcomes == {"mkdirErr", "reqErr", "respErr", "status", "ok"}

\* the body of a 2xx response: the object from the offset of the Range header on
BodyLen(obj, fromBytes) == obj.size - fromBytes

\* Fetch with the tasks that wait in the channel dropped when the call fails
FetchAborts(w) ==
    /\ workers[w].pc = "start"
    /\ \E o \in Outcomes :
        IF o = "ok" /\ BodyLen(remote[workers[w].task.key], workers[w].task.fromBytes) > 0
        THEN /\ workers' = [workers EXCEPT ![w].pc = "open",
                               ![w].left = BodyLen(remote[workers[w].task.key],
                                                   workers[w].task.fromBytes)]
             /\ queue' = queue
        ELSE /\ workers' = [workers EXCEPT ![w].pc = "ret", ![w].err = TRUE]
             /\ queue' = <<>>
    /\ UNCHANGED <<destDir, suffixes, remote, store, fs, poolCap, pc, listing, idx,
                   pending, wg, cnt, exitStatus, nextId, taken, finished, decision,
                   acceptedLmd, resumeDue, prevDone, clean>>

\* Fetch with the temp file removed when the call fails
FetchCleans(w) ==
    /\ workers[w].pc = "start"
    /\ \E o \in Outcomes :
        IF o = "ok" /\ BodyLen(remote[workers[w].task.key], workers[w].task.fromBytes) > 0
        THEN /\ workers' = [workers EXCEPT ![w].pc = "open",
                               ![w].left = BodyLen(remote[workers[w].task.key],
                                                   workers[w].task.fromBytes)]
             /\ fs' = fs
        ELSE /\ workers' = [workers EXCEPT ![w].pc = "ret", ![w].err = TRUE]
             /\ fs' = MapDel(fs, LocalFilePathTmp(workers[w].task.key))
    /\ UNCHANGED <<destDir, suffixes, remote, store, poolCap, queue, pc, listing, idx,
                   pending, wg, cnt, exitStatus, nextId, taken, finished, decision,
                   acceptedLmd, resumeDue, prevDone, clean>>

Fetch(w) ==
    /\ workers[w].pc = "start"
    /\ \E o \in Outcomes :
        IF o = "ok" /\ BodyLen(remote[workers[w].task.key], workers[w].task.fromBytes) > 0
        THEN workers' = [workers EXCEPT ![w].pc = "open",
                            ![w].left = BodyLen(remote[workers[w].task.key],
                                                workers[w].task.fromBytes)]
        ELSE workers' = [workers EXCEPT ![w].pc = "ret", ![w].err = TRUE]
    /\ UNCHANGED <<destDir, suffixes, remote, store, fs, poolCap, queue, pc, listing, idx,
                   pending, wg, cnt, exitStatus, nextId, taken, finished, decision,
                   acceptedLmd, resumeDue, prevDone, clean>>

\* os.OpenFile(O_APPEND|O_WRONLY) when resuming, os.Create else
OpenTmp(w) ==
    /\ workers[w].pc = "open"
    /\ LET tmp == LocalFilePathTmp(workers[w].task.key)
           append == workers[w].task.fromBytes # 0
       IN \E openErr \in BOOLEAN :
            IF openErr \/ (append /\ tmp \notin DOMAIN fs)
            THEN /\ workers' = [workers EXCEPT ![w].pc = "ret", ![w].err = TRUE]
                 /\ fs' = fs
            ELSE /\ workers' = [workers EXCEPT ![w].pc = "copy"]
                 /\ fs' = IF append
                          THEN [fs EXCEPT ![tmp].whole = FALSE]
                          ELSE MapPut(fs, tmp, [size |-> 0, whole |-> FALSE])
    /\ UNCHANGED <<destDir, suffixes, remote, store, poolCap, queue, pc, listing, idx,
                   pending, wg, cnt, exitStatus, nextId, taken, finished, decision,
                   acceptedLmd, resumeDue, prevDone, clean>>

\* io.Copy moves the next byte of the body to the end of the temp file
CopyByte(w) ==
    /\ workers[w].pc = "copy"
    /\ workers[w].left > 0
    /\ workers' = [workers EXCEPT ![w].left = @ - 1]
    /\ fs' = [fs EXCEPT ![LocalFilePathTmp(workers[w].task.key)] =
                  [size |-> @.size + 1, whole |-> workers[w].left = 1]]
    /\ UNCHANGED <<destDir, suffixes, remote, store, poolCap, queue, pc, listing, idx,
                   pending, wg, cnt, exitStatus, nextId, taken, finished, decision,
                   acceptedLmd, resumeDue, prevDone, clean>>

\* CopyFail with the rename reached although the copy failed
CopyFailPromotes(w) ==
    /\ workers[w].pc = "copy"
    /\ workers[w].left > 0
    /\ workers' = [workers EXCEPT ![w].pc = "ret", ![w].err = TRUE]
    /\ fs' = Rename(fs, LocalFilePathTmp(workers[w].task.key),
                    LocalFilePath(workers[w].task.key))
    /\ UNCHANGED <<destDir, suffixes, remote, store, poolCap, queue, pc, listing, idx,
                   pending, wg, cnt, exitStatus, nextId, taken, finished, decision,
                   acceptedLmd, resumeDue, prevDone, clean>>

\* io.Copy returns cpErr before the body is at its end: the temp file stays
CopyFail(w) ==
    /\ workers[w].pc = "copy"
    /\ workers[w].left > 0
    /\ workers' = [workers EXCEPT ![w].pc = "ret", ![w].err = TRUE]
    /\ UNCHANGED <<destDir, suffixes, remote, store, fs, poolCap, queue, pc, listing, idx,
                   pending, wg, cnt, exitStatus, nextId, taken, finished, decision,
                   acceptedLmd, resumeDue, prevDone, clean>>

\* io.Copy returns at the end of the body, localFp.Close()
CopyDone(w) ==
    /\ workers[w].pc = "copy"
    /\ workers[w].left = 0
    /\ workers' = [workers EXCEPT ![w].pc = "rename"]
    /\ UNCHANGED <<destDir, suffixes, remote, store, fs, poolCap, queue, pc, listing, idx,
                   pending, wg, cnt, exitStatus, nextId, taken, finished, decision,
                   acceptedLmd, resumeDue, prevDone, clean>>

\* os.Rename(localFilePathTmp, localFilePath), which may fail
RenameTmp(w) ==
    /\ workers[w].pc = "rename"
    /\ LET key == workers[w].task.key
       IN \E renameErr \in BOOLEAN :
            IF renameErr
            THEN /\ workers' = [workers EXCEPT ![w].pc = "ret", ![w].err = TRUE]
                 /\ UNCHANGED <<fs, acceptedLmd>>
            ELSE /\ workers' = [workers EXCEPT ![w].pc = "ret"]
                 /\ fs' = Rename(fs, LocalFilePathTmp(key), LocalFilePath(key))
                 /\ acceptedLmd' = [acceptedLmd EXCEPT ![key] = decision[key].mtime]
    /\ UNCHANGED <<destDir, suffixes, remote, store, poolCap, queue, pc, listing, idx,
                   pending, wg, cnt, exitStatus, nextId, taken, finished, decision,
                   resumeDue, prevDone, clean>>

\* ---- the closure, after downloadFile has returned: the atomic adds
\* Counted with the update counter moved by every success
CountedAllUpdates(counters, task, downErr) ==
    IF downErr THEN [counters EXCEPT !.failure = @ + 1]
    ELSE [counters EXCEPT !.success = @ + 1, !.update = @ + 1]

Counted(counters, task, downErr) ==
    IF downErr THEN [counters EXCEPT !.failure = @ + 1]
    ELSE [counters EXCEPT !.success = @ + 1,
                          !.update = IF task.downNewLog THEN @ ELSE @ + 1]

\* Count with the entry of a failed task taken back out of the store
CountRollback(w) ==
    /\ workers[w].pc = "ret"
    /\ cnt' = Counted(cnt, workers[w].task, workers[w].err)
    /\ workers' = [workers EXCEPT ![w].pc = "done"]
    /\ store' = IF workers[w].err
                THEN MapDel(store, ResumePutKey(LocalFilePath(workers[w].task.key)))
                ELSE store
    /\ UNCHANGED <<destDir, suffixes, remote, fs, poolCap, queue, pc, listing, idx,
                   pending, wg, exitStatus, nextId, taken, finished, decision,
                   acceptedLmd, resumeDue, prevDone, clean>>

Count(w) ==
    /\ workers[w].pc = "ret"
    /\ cnt' = Counted(cnt, workers[w].task, workers[w].err)
    /\ workers' = [workers EXCEPT ![w].pc = "done"]
    /\ UNCHANGED <<destDir, suffixes, remote, store, fs, poolCap, queue, pc, listing, idx,
                   pending, wg, exitStatus, nextId, taken, finished, decision,
                   acceptedLmd, resumeDue, prevDone, clean>>

\* Done without downWaitGroup.Done()
DoneForgets(w) ==
    /\ workers[w].pc = "done"
    /\ finished' = finished \cup {workers[w].task.id}
    /\ decision' = [decision EXCEPT ![workers[w].task.key] =
                          Settled([@ EXCEPT !.err = workers[w].err])]
    /\ workers' = [workers EXCEPT ![w] = IdleWorker]
    /\ UNCHANGED <<destDir, suffixes, remote, store, fs, poolCap, queue, pc, listing, idx,
                   pending, wg, cnt, exitStatus, nextId, taken, acceptedLmd, resumeDue,
                   prevDone, clean>>

\* defer downWaitGroup.Done(); the worker is back at its receive
Done(w) ==
    /\ workers[w].pc = "done"
    /\ wg' = wg - 1
    /\ finished' = finished \cup {workers[w].task.id}
    /\ decision' = [decision EXCEPT ![workers[w].task.key] =
                          Settled([@ EXCEPT !.err = workers[w].err])]
    /\ workers' = [workers EXCEPT ![w] = IdleWorker]
    /\ UNCHANGED <<destDir, suffixes, remote, store, fs, poolCap, queue, pc, listing, idx,
                   pending, cnt, exitStatus, nextId, taken, acceptedLmd, resumeDue,
                   prevDone, clean>>

\* ---- the process is killed during a run; the disk keeps what was written
MidTransfer(k) ==
    \E w \in Workers :
        /\ workers[w].pc = "copy"
        /\ workers[w].task.key = k
        /\ LocalFilePathTmp(k) \in DOMAIN fs
        /\ fs[LocalFilePathTmp(k)].size > 0
        /\ fs[LocalFilePathTmp(k)].size < workers[w].task.fileSize

Interrupt ==
    /\ pc # "idle"
    /\ ProcessGone
    /\ RunOver
    /\ resumeDue' = {k \in Keys : MidTransfer(k)}
    /\ prevDone' = FALSE
    /\ UNCHANGED <<destDir, suffixes, remote, store, fs, exitStatus, acceptedLmd>>

\* the process ends after a run that returned
ProcessExit ==
    /\ pc = "idle"
    /\ poolCap # 0
    /\ ProcessGone
    /\ UNCHANGED <<destDir, suffixes, remote, store, fs, pc, listing, idx, pending, wg,
                   cnt, exitStatus, nextId, taken, finished, decision,
                   acceptedLmd, resumeDue, prevDone, clean>>

Next ==
    \/ \E k \in Changing : Mutate(k)
    \/ \E n \in MIN_DOWNLOAD_THREAD_COUNT..MaxThreads : StartRun(n)
    \/ ScanShort
    \/ ScanFiltered
    \/ ScanInvalid
    \/ ScanExists
    \/ ScanPromote
    \/ ScanDispatch
    \/ Send
    \/ ScanEnd
    \/ Wait
    \/ Report
    \/ Interrupt
    \/ ProcessExit
    \/ \E w \in Workers : Take(w)
    \/ \E w \in Workers : Fetch(w)
    \/ \E w \in Workers : OpenTmp(w)
    \/ \E w \in Workers : CopyByte(w)
    \/ \E w \in Workers : CopyFail(w)
    \/ \E w \in Workers : CopyDone(w)
    \/ \E w \in Workers : RenameTmp(w)
    \/ \E w \in Workers : Count(w)
    \/ \E w \in Workers : Done(w)

Spec == Init /\ [][Next]_vars

\* ---- what the properties speak about
Dispatched(k) == decision[k].kind = "download"

Returned(w) == workers[w].pc \in {"ret", "done"}

Failed(w) == Returned(w) /\ workers[w].err

Succeeded(w) == Returned(w) /\ ~workers[w].err

InDownloadFile(w) == workers[w].pc \in {"start", "open", "copy", "rename"}

Holders(id) == {w \in Workers : workers[w].pc \notin {"off", "idle"} /\ workers[w].task.id = id}

Waiting(id) ==
    Cardinality({i \in 1..Len(queue) : queue[i].id = id})
        + (IF pending.id = id THEN 1 ELSE 0)

\* C1 Change detection: an object whose remote modification time differs from
\* the one under which its local final file was last accepted (by a download,
\* a promotion or a classification as existing) is never classified as existing.
C1_ChangeDetection ==
    \A k \in Keys :
        (decision[k].kind = "exists" /\ decision[k].acceptedBefore # 0)
            => decision[k].acceptedBefore = decision[k].mtime

\* C2 Atomicity, as first stated: after a task that ended in failure there is no
\* file at its final path, and a task that succeeded left there the file its
\* complete copy produced.
C2_NoFinalAfterFailure ==
    \A w \in Workers :
        /\ Failed(w) => LocalFilePath(workers[w].task.key) \notin DOMAIN fs
        /\ Succeeded(w) =>
              /\ LocalFilePath(workers[w].task.key) \in DOMAIN fs
              /\ fs[LocalFilePath(workers[w].task.key)].whole

\* C2 Atomicity, amended: a task that has not returned, or that ended in
\* failure, has left its final path as the controller found it (absent if it
\* was absent, the earlier file if there was one); a task that succeeded left
\* there the file its complete copy produced.
C2_FailureKeepsFinal ==
    \A w \in Workers :
        /\ (InDownloadFile(w) \/ Failed(w)) =>
              FileAt(fs, LocalFilePath(workers[w].task.key))
                  = decision[workers[w].task.key].finalBefore
        /\ Succeeded(w) =>
              /\ LocalFilePath(workers[w].task.key) \in DOMAIN fs
              /\ fs[LocalFilePath(workers[w].task.key)].whole

\* a task failed in the middle of its copy, and its final path holds nothing
C2_Witness ==
    \E w \in Workers :
        /\ Failed(w)
        /\ LocalFilePathTmp(workers[w].task.key) \in DOMAIN fs
        /\ fs[LocalFilePathTmp(workers[w].task.key)].size > 0
        /\ LocalFilePath(workers[w].task.key) \notin DOMAIN fs

\* the run found: no final file, a temp file shorter than the object, and the
\* object's entry (under the absolute path) with the object's modification time
Resumable(d) ==
    /\ d.kind \notin {"none", "filtered"}
    /\ d.finalBefore = NoFile
    /\ d.tmpBefore # NoFile
    /\ d.tmpBefore.size < d.size
    /\ d.recBefore = d.mtime

\* C3 Resume correctness: with no final file, a temp file of size K < S and an
\* entry with the object's modification time, the task asks for the bytes from
\* K on, appends them to the temp file, and the file it promotes has size S.
C3_ResumeCorrect ==
    \A k \in Keys :
        Resumable(decision[k]) =>
            /\ Dispatched(k)
            /\ decision[k].fromBytes = decision[k].tmpBefore.size
            /\ \A w \in Workers :
                 (workers[w].pc # "off" /\ workers[w].task.key = k) =>
                    /\ workers[w].task.fromBytes = decision[k].tmpBefore.size
                    /\ workers[w].pc = "copy" =>
                          fs[LocalFilePathTmp(k)].size + workers[w].left = decision[k].size
                    /\ Succeeded(w) => fs[LocalFilePath(k)].size = decision[k].size

\* C4 Resumption after interruption: an object whose transfer the previous run
\* was interrupted in, with its entry written and a partial temp file, is
\* classified by the next run over the same listing as a resumed download that
\* starts at the size of the temp file.
C4_ResumeAfterInterrupt ==
    \A k \in resumeDue :
        decision[k].kind # "none" =>
            /\ Dispatched(k)
            /\ ~decision[k].downNewLog
            /\ decision[k].fromBytes = decision[k].tmpBefore.size

\* C5 Completion barrier: where QiniuDownload reads its counters for the final
\* report, every task of the run has returned: none is in the channel, none is
\* being sent and no worker is running one.
C5_Barrier ==
    pc = "report" =>
        /\ queue = <<>>
        /\ pending = NoTask
        /\ \A w \in Workers : workers[w].pc \in {"off", "idle"}
        /\ finished = 1..nextId

\* the report of a run that sent two tasks, one of which failed
C5_Witness == pc = "report" /\ nextId = 2 /\ cnt.failure = 1 /\ cnt.success = 1

\* C6 Exactly-once execution: every task the controller built is in exactly
\* one place (being sent or in the channel, with one worker, or finished), was
\* received at most once, and at the report was received exactly once.
C6_ExactlyOnce ==
    \A id \in 1..nextId :
        /\ taken[id] <= 1
        /\ Waiting(id) + Cardinality(Holders(id)) + (IF id \in finished THEN 1 ELSE 0) = 1
        /\ taken[id] = 0 <=> Waiting(id) = 1
        /\ pc = "report" => (taken[id] = 1 /\ id \in finished)

\* two workers run the two tasks of the run at the same time
C6_Witness ==
    /\ taken = <<1, 1>>
    /\ Cardinality(Holders(1)) = 1
    /\ Cardinality(Holders(2)) = 1

\* C7 Concurrency bound: at most N executions of downloadFile are in progress,
\* N being the size the pool was made with.
C7_ConcurrencyBound ==
    Cardinality({w \in Workers : InDownloadFile(w)}) <= poolCap

\* a pool of one worker is transferring one object while another one waits
C7_Witness ==
    /\ poolCap = 1
    /\ Cardinality({w \in Workers : InDownloadFile(w)}) = 1
    /\ Len(queue) = 1

\* C8 Record intent before dispatch: from the moment a task is handed to the
\* channel on, whatever becomes of it, the store holds under the absolute path
\* of its file the modification time and size of its object.
C8_RecordIntent ==
    \A k \in Keys :
        Dispatched(k) =>
            /\ Abs(LocalFilePath(k)) \in DOMAIN store
            /\ store[Abs(LocalFilePath(k))] = FormatEntry(decision[k].mtime, decision[k].size)

\* a task has failed and been counted, and its entry is in the store
C8_Witness ==
    \E w \in Workers :
        /\ workers[w].pc = "done"
        /\ workers[w].err
        /\ Abs(LocalFilePath(workers[w].task.key)) \in DOMAIN store

\* C9 Idempotence: a run over the listing of the previous, completed run, with
\* the final file of every object the filter lets through in place at its
\* listed size, sends no task: each such object is classified as existing.
C9_Idempotent ==
    clean =>
        /\ nextId = 0
        /\ \A k \in Keys : decision[k].kind \in {"none", "filtered", "exists"}

\* such a second run has classified both objects as existing
C9_Witness == clean /\ pc = "report" /\ cnt.exists = 2

\* C10 Promotion: every file at a final path was produced by a transfer that
\* read its response body to the end without error.
C10_PromotedWhole ==
    \A k \in Keys :
        LocalFilePath(k) \in DOMAIN fs => fs[LocalFilePath(k)].whole

\* the objects of the run that met an error of their own: in their task, or in
\* the rename the controller does itself
Erred == {k \in Keys : decision[k].err}

\* C11 Failure status: where the final report is made, every object that met an
\* error of its own (request, network, status, copy, rename of the temp file) is
\* in the failure counter, and if there is one the run exits with STATUS_ERROR.
C11_FailureStatus ==
    pc = "report" =>
        /\ cnt.failure = Cardinality(Erred)
        /\ Erred # {} => ExitCode(cnt) = STATUS_ERROR

\* the step in which the task of worker w fails, and the one in which the
\* closure counts the failure
FailsIn(w) == ~workers[w].err /\ workers'[w].err

CountsFailure(w) == workers[w].pc = "ret" /\ workers[w].err /\ workers'[w].pc = "done"

\* what such a step leaves alone: the channel, the task being sent, the other
\* workers, the controller's place in the listing, the files and the store
LeavesOthers(w) ==
    /\ queue' = queue
    /\ pending' = pending
    /\ \A v \in Workers \ {w} : workers'[v] = workers[v]
    /\ pc' = pc
    /\ idx' = idx
    /\ wg' = wg
    /\ fs' = fs
    /\ store' = store

\* C12 Failure isolation: the step in which a task fails changes nothing but
\* that task, the step that counts it adds one to the failure counter and
\* changes no other counter; and a run in which tasks failed comes to its report
\* with every line of the listing classified and every task it sent returned,
\* each counted once as a success or as a failure.
C12_FailureIsolated ==
    /\ [][\A w \in Workers :
            /\ FailsIn(w) => (LeavesOthers(w) /\ cnt' = cnt)
            /\ CountsFailure(w) =>
                  (LeavesOthers(w) /\ cnt' = [cnt EXCEPT !.failure = @ + 1])]_vars
    /\ []((pc = "report" /\ cnt.failure > 0) =>
            /\ idx = Len(listing) + 1
            /\ finished = 1..nextId
            /\ cnt.success + cnt.failure = nextId)

\* the first task of a run has failed and been counted while the controller
\* still has a line of the listing to classify
C12_Witness ==
    /\ pc = "scan"
    /\ idx <= Len(listing)
    /\ \E w \in Workers : workers[w].pc = "done" /\ workers[w].err

\* an allow-list is configured and key ends in none of its suffixes
FilteredOut(key) ==
    /\ \E i \in 1..Len(suffixes) : suffixes[i] # <<>>
    /\ \A i \in 1..Len(suffixes) : suffixes[i] # <<>> => ~HasSuffix(key, suffixes[i])

\* the step of the scan loop over the line of such a key
FilterStep ==
    /\ pc = "scan"
    /\ idx <= Len(listing)
    /\ Len(listing[idx]) >= 4
    /\ FilteredOut(listing[idx][1])
    /\ idx' = idx + 1

\* no task for key exists, its paths hold no file, the store has no entry for it
Untouched(key) ==
    /\ pending.key # key
    /\ \A i \in 1..Len(queue) : queue[i].key # key
    /\ \A w \in Workers : workers[w].task.key # key
    /\ LocalFilePath(key) \notin DOMAIN fs
    /\ LocalFilePathTmp(key) \notin DOMAIN fs
    /\ ResumeGetKey(LocalFilePath(key)) \notin DOMAIN store
    /\ ResumePutKey(LocalFilePath(key)) \notin DOMAIN store

\* what the step over a filtered line leaves alone
FilterFrame ==
    /\ store' = store
    /\ fs' = fs
    /\ queue' = queue
    /\ pending' = pending
    /\ workers' = workers
    /\ wg' = wg
    /\ nextId' = nextId
    /\ pc' = "scan"

\* C13 Suffix filter, as first stated: the step over the line of a key that
\* ends in none of the configured suffixes sends no task, leaves the store and
\* the files alone, and of the counters changes only the suffix-filtered one.
C13_OnlySkipCounter ==
    /\ [](\A k \in Keys : FilteredOut(k) => Untouched(k))
    /\ [][FilterStep => (FilterFrame /\ cnt' = [cnt EXCEPT !.skip = @ + 1])]_vars

\* C13 Suffix filter, amended: the step over the line of a key that ends in
\* none of the configured suffixes sends no task and leaves the store and the
\* files alone; it adds one to the suffix-filtered counter and, as for every
\* line, one to the position the progress report shows; no other counter moves.
C13_SkipAndPosition ==
    /\ [](\A k \in Keys : FilteredOut(k) => Untouched(k))
    /\ [][FilterStep =>
            (FilterFrame /\ cnt' = [cnt EXCEPT !.skip = @ + 1, !.current = @ + 1])]_vars

\* the run has passed over the filtered object while the task of the other
\* one is copying
C13_Witness ==
    /\ cnt.skip = 1
    /\ \E k \in Keys : FilteredOut(k) /\ decision[k].kind = "filtered"
    /\ \E w \in Workers : workers[w].pc = "copy"

\* a line with fewer than 4 fields, or whose size or time is no number
DataError(items) ==
    \/ Len(items) < 4
    \/ ParseInt(items[2]).err
    \/ ParseInt(items[4]).err

\* the lines among the first n of the listing that are no data errors
GoodLines(n) == {i \in 1..n : ~DataError(listing[i])}

\* C14 Data errors: a line that is a data error gets no task, and is counted
\* neither in the total of the report nor in the position the progress report
\* shows.
C14_DataErrorsNotCounted ==
    pc \in {"scan", "send", "wait", "report"} =>
        /\ nextId <= Cardinality(GoodLines(idx - 1))
        /\ cnt.total = Cardinality(GoodLines(Len(listing)))
        /\ cnt.current = Cardinality(GoodLines(idx - 1))

\* the run found: no final file, a temp file not smaller than the object, and
\* the object's entry (under the absolute path) with the object's modification time
Promotable(d) ==
    /\ d.kind \notin {"none", "filtered"}
    /\ d.finalBefore = NoFile
    /\ d.tmpBefore # NoFile
    /\ d.tmpBefore.size >= d.size
    /\ d.recBefore = d.mtime

\* the objects the run took as satisfied: the local file taken as unchanged, or
\* the temp file renamed to the final path
Satisfied ==
    {k \in Keys : \/ decision[k].kind = "exists"
                  \/ decision[k].kind = "promote" /\ ~decision[k].err}

\* C15 Direct promotion: with no final file, a temp file of at least the listed
\* size and an entry with the object's modification time, the controller sends
\* no task and renames the temp file to the final path; and the report counts
\* the object among those already satisfied.
C15_DirectPromotion ==
    /\ \A k \in Keys :
          Promotable(decision[k]) =>
              /\ decision[k].kind = "promote"
              /\ ~decision[k].err =>
                    /\ FileAt(fs, LocalFilePath(k)) = decision[k].tmpBefore
                    /\ LocalFilePathTmp(k) \notin DOMAIN fs
    /\ pc = "report" => cnt.exists = Cardinality(Satisfied)

\* ---- the paths of the tasks of one run, over listings of any two distinct keys
\* (a run into an empty directory, after initDownOnce; of downloadFile what it
\* does to its two paths)
PathTokens == {"a", ".tmp"}

PathKeys == UNION {[1..n -> PathTokens] : n \in 1..MaxKeyLen}

PathListings ==
    {<<ListLine(k1, [size |-> 1, mtime |-> 1]), ListLine(k2, [size |-> 1, mtime |-> 1])>> :
        <<k1, k2>> \in {p \in PathKeys \X PathKeys : p[1] # p[2]}}

PathInit ==
    /\ destDir \in DestDirs
    /\ suffixes = <<<<>>>>
    /\ remote = [k \in Keys |-> [size |-> 1, mtime |-> 1]]
    /\ store = EmptyMap
    /\ fs = EmptyMap
    /\ poolCap = MaxThreads
    /\ queue = <<>>
    /\ workers = [w \in Workers |->
                     IF w <= SpawnCount(MaxThreads) THEN IdleWorker ELSE OffWorker]
    /\ pc = "scan"
    /\ listing \in PathListings
    /\ idx = 1
    /\ pending = NoTask
    /\ wg = 0
    /\ cnt = [ZeroCounters EXCEPT !.total = GetFileLineCount(listing)]
    /\ exitStatus = 0
    /\ nextId = 0
    /\ taken = <<>>
    /\ finished = {}
    /\ decision = [k \in Keys |-> NoDecision]
    /\ acceptedLmd = [k \in Keys |-> 0]
    /\ resumeDue = {}
    /\ prevDone = FALSE
    /\ clean = FALSE

\* one turn of the scan loop over a well-formed line: the object is taken as
\* existing, or its temp file is renamed, or its entry is written and the send
\* of its task begins
PathScan ==
    /\ WellFormed
    /\ Advance
    /\ IF Decided.kind = "download"
       THEN /\ store' = MapPut(store, ResumePutKey(LocalFilePath(FileKey)),
                               FormatEntry(FileMtime, FileSize))
            /\ wg' = wg + 1
            /\ nextId' = nextId + 1
            /\ taken' = Append(taken, 0)
            /\ pending' = NewTask(nextId + 1, Decided, FileKey, FileSize)
            /\ pc' = "send"
            /\ fs' = fs
       ELSE /\ \E renameErr \in BOOLEAN :
                fs' = IF Decided.kind = "promote" /\ ~renameErr
                      THEN Rename(fs, LocalFilePathTmp(FileKey), LocalFilePath(FileKey))
                      ELSE fs
            /\ UNCHANGED <<store, wg, nextId, taken, pending, pc>>
    /\ UNCHANGED <<destDir, suffixes, remote, poolCap, queue, workers, listing,
                   exitStatus, finished, decision, acceptedLmd, resumeDue, prevDone,
                   clean>>

\* downloadFile up to the open of the temp file: os.OpenFile(O_APPEND|O_WRONLY)
\* when resuming, os.Create else (by: the task whose open file this is)
PathOpen(w) ==
    /\ workers[w].pc = "start"
    /\ LET tmp == LocalFilePathTmp(workers[w].task.key)
           append == workers[w].task.fromBytes # 0
       IN IF append /\ tmp \notin DOMAIN fs
          THEN /\ workers' = [workers EXCEPT ![w].pc = "ret", ![w].err = TRUE]
               /\ fs' = fs
          ELSE /\ workers' = [workers EXCEPT ![w].pc = "copy"]
               /\ fs' = IF append
                        THEN [fs EXCEPT ![tmp] = [size |-> @.size, whole |-> FALSE,
                                                  by |-> workers[w].task.id]]
                        ELSE MapPut(fs, tmp, [size |-> 0, whole |-> FALSE,
                                              by |-> workers[w].task.id])
    /\ UNCHANGED <<destDir, suffixes, remote, store, poolCap, queue, pc, listing, idx,
                   pending, wg, cnt, exitStatus, nextId, taken, finished, decision,
                   acceptedLmd, resumeDue, prevDone, clean>>

\* io.Copy writes the body to the file the task has open: the file at the temp
\* path, unless another file has been renamed onto that path or it was renamed away
PathCopy(w) ==
    /\ workers[w].pc = "copy"
    /\ LET tmp == LocalFilePathTmp(workers[w].task.key)
       IN fs' = IF tmp \in DOMAIN fs /\ fs[tmp].by = workers[w].task.id
                THEN [fs EXCEPT ![tmp].size = workers[w].task.fileSize,
                                ![tmp].whole = TRUE]
                ELSE fs
    /\ workers' = [workers EXCEPT ![w].pc = "rename"]
    /\ UNCHANGED <<destDir, suffixes, remote, store, poolCap, queue, pc, listing, idx,
                   pending, wg, cnt, exitStatus, nextId, taken, finished, decision,
                   acceptedLmd, resumeDue, prevDone, clean>>

\* os.Rename(localFilePathTmp, localFilePath): whatever file is at the temp
\* path goes to the final path; an error if none is there
PathRename(w) ==
    /\ workers[w].pc = "rename"
    /\ LET tmp == LocalFilePathTmp(workers[w].task.key)
       IN IF tmp \in DOMAIN fs
          THEN /\ fs' = Rename(fs, tmp, LocalFilePath(workers[w].task.key))
               /\ workers' = [workers EXCEPT ![w].pc = "ret"]
          ELSE /\ fs' = fs
               /\ workers' = [workers EXCEPT ![w].pc = "ret", ![w].err = TRUE]
    /\ UNCHANGED <<destDir, suffixes, remote, store, poolCap, queue, pc, listing, idx,
                   pending, wg, cnt, exitStatus, nextId, taken, finished, decision,
                   acceptedLmd, resumeDue, prevDone, clean>>

\* the atomic adds of the closure, defer downWaitGroup.Done(); the worker is
\* back at its receive
PathDone(w) ==
    /\ workers[w].pc = "ret"
    /\ wg' = wg - 1
    /\ finished' = finished \cup {workers[w].task.id}
    /\ cnt' = Counted(cnt, workers[w].task, workers[w].err)
    /\ workers' = [workers EXCEPT ![w] = IdleWorker]
    /\ UNCHANGED <<destDir, suffixes, remote, store, fs, poolCap, queue, pc, listing, idx,
                   pending, exitStatus, nextId, taken, decision, acceptedLmd,
                   resumeDue, prevDone, clean>>

PathNext ==
    \/ PathScan
    \/ Send
    \/ ScanEnd
    \/ Wait
    \/ \E w \in Workers : Take(w)
    \/ \E w \in Workers : PathOpen(w)
    \/ \E w \in Workers : PathCopy(w)
    \/ \E w \in Workers : PathRename(w)
    \/ \E w \in Workers : PathDone(w)

PathSpec == PathInit /\ [][PathNext]_vars

\* the local paths downloadFile creates, appends to or renames for a task
Paths(task) == {LocalFilePath(task.key), LocalFilePathTmp(task.key)}

\* C16 No shared file paths between workers: the temp path and the final path
\* of a task a worker is running are both different from the temp path and the
\* final path of every task another worker is running at the same time.
C16_DistinctPaths ==
    \A v, w \in Workers :
        (v # w /\ InDownloadFile(v) /\ InDownloadFile(w)) =>
            Paths(workers[v].task) \cap Paths(workers[w].task) = {}

\* the step in which downloadFile fails before it has a 2xx response: MkdirAll,
\* http.NewRequest or client.Do fails, or the status is not 2xx
EarlyFailure(w) == workers[w].pc = "start" /\ workers'[w].pc = "ret"

\* C17 No artifact on early failure: when downloadFile fails before it has a
\* 2xx response, no file is created, changed or removed, and the temp file and
\* the final file of the object are as the controller found them when it
\* classified the object.
C17_NoArtifact ==
    [][\A w \in Workers :
          EarlyFailure(w) =>
              /\ fs' = fs
              /\ FileAt(fs', LocalFilePathTmp(workers[w].task.key))
                    = decision[workers[w].task.key].tmpBefore
              /\ FileAt(fs', LocalFilePath(workers[w].task.key))
                    = decision[workers[w].task.key].finalBefore]_vars

\* a task that was to resume has failed before its response, and the partial
\* temp file is there with the size the task was to resume from
C17_Witness ==
    \E w \in Workers :
        /\ workers[w].pc = "ret"
        /\ workers[w].err
        /\ workers[w].left = 0
        /\ workers[w].task.fromBytes > 0
        /\ LocalFilePathTmp(workers[w].task.key) \in DOMAIN fs
        /\ fs[LocalFilePathTmp(workers[w].task.key)].size = workers[w].task.fromBytes
        /\ workers[w].task.fromBytes < workers[w].task.fileSize

\* the goroutines initDownOnce started
Started == {w \in Workers : workers[w].pc # "off"}

\* C18 Backpressure: the channel has as many places as there are workers and
\* never holds more tasks than that; while the controller is sending a task it
\* classifies no further line, and while the channel is full the send stays
\* pending.
C18_Backpressure ==
    /\ [](/\ Cardinality(Started) = poolCap
          /\ Len(queue) <= poolCap
          /\ pc = "send" <=> pending # NoTask)
    /\ [][(pc = "send" /\ pc' # "idle") =>
            /\ idx' = idx
            /\ nextId' = nextId
            /\ store' = store
            /\ cnt'.current = cnt.current
            /\ Len(queue) >= poolCap => (pc' = "send" /\ pending' = pending)]_vars

\* the channel of a pool of one worker is full, and the send of the second
\* task of the run is pending
C18_Witness ==
    /\ pc = "send"
    /\ poolCap = 1
    /\ Len(queue) = poolCap
    /\ pending.id = 2

\* the objects whose task, classified as the resumption of a temp file (not as
\* a new download), has succeeded
ResumedOk ==
    {k \in Keys : /\ decision[k].kind = "download"
                  /\ ~decision[k].downNewLog
                  /\ ~decision[k].err}

\* C19 Counter consistency: at the final report the successes and the failures
\* add up to the tasks the run sent, the update counter is at most the success
\* counter, and it is the number of succeeded tasks that were classified as
\* resumptions.
C19_CounterConsistency ==
    pc = "report" =>
        /\ cnt.success + cnt.failure = nextId
        /\ cnt.update <= cnt.success
        /\ cnt.update = Cardinality(ResumedOk)

\* the report of a run whose two tasks succeeded, one of them the resumption
\* of a temp file that had a part of the object
C19_Witness ==
    /\ pc = "report"
    /\ cnt.success = 2
    /\ cnt.update = 1
    /\ \E k \in ResumedOk : decision[k].fromBytes > 0

\* ---- the runs, one after the other, of a process that is not killed, under
\* fair scheduling
\* the steps of QiniuDownload from the scan loop to the wait
RunStep ==
    \/ ScanShort
    \/ ScanFiltered
    \/ ScanInvalid
    \/ ScanExists
    \/ ScanPromote
    \/ ScanDispatch
    \/ Send
    \/ ScanEnd
    \/ Wait

\* the steps of a worker that has received a task: downloadFile and the rest
\* of the closure
Transfer(w) ==
    \/ Fetch(w)
    \/ OpenTmp(w)
    \/ CopyByte(w)
    \/ CopyFail(w)
    \/ CopyDone(w)
    \/ RenameTmp(w)
    \/ Count(w)
    \/ Done(w)

\* (the bucket stays as it is: what a run does with its tasks does not depend
\* on how the listing came to differ from the local files)
FairNext ==
    \/ \E n \in MIN_DOWNLOAD_THREAD_COUNT..MaxThreads : StartRun(n)
    \/ RunStep
    \/ Report
    \/ ProcessExit
    \/ \E w \in Workers : Take(w)
    \/ \E w \in Workers : Transfer(w)

\* the goroutine of QiniuDownload runs when it can; a task in the channel is
\* received when a worker waits for one; every call of downloadFile returns and
\* the closure around it ends
Fairness ==
    /\ WF_vars(RunStep)
    /\ WF_vars(\E w \in Workers : Take(w))
    /\ \A w \in Workers : WF_vars(Transfer(w))

FairSpec == Init /\ [][FairNext]_vars /\ Fairness

\* C20 Run termination: a run that has begun its scan loop comes to its final
\* report, whatever the listing holds and however the sends, the workers and
\* the wait interleave.
C20_Terminates == (pc \in {"scan", "send", "wait"}) ~> (pc = "report")

\* a pool of one worker has run the two tasks of a run, and the run is at its report
C20_Witness == pc = "report" /\ poolCap = 1 /\ nextId = 2 /\ cnt.failure = 0

====
